---- MODULE Spec2Model ----
(***************************************************************************)
(* Codebase parser (src/main.py): directory scan with ignore rules and     *)
(* extension filter, grouping by parent directory, project statistics,     *)
(* tree and report rendering, per-file line heuristics and the command     *)
(* line entry points.                                                      *)
(*                                                                         *)
(* Text is modelled as sequences of one-character strings so that suffix,  *)
(* prefix, ordering and line splitting are computed, not assumed.          *)
(***************************************************************************)
EXTENDS Integers, Sequences, FiniteSets, TLC

(***************************************************************************)
(* Characters and strings                                                  *)
(***************************************************************************)

\* Line feed followed by printable ASCII in code point order (code point 96,
\* which the lexer cannot quote, is held by a placeholder no text contains).
Alphabet ==
    <<"\n", " ", "!", "\"", "#", "$", "%", "&", "'", "(", ")", "*",
      "+", ",", "-", ".", "/", "0", "1", "2", "3", "4", "5", "6",
      "7", "8", "9", ":", ";", "<", "=", ">", "?", "@", "A", "B",
      "C", "D", "E", "F", "G", "H", "I", "J", "K", "L", "M", "N",
      "O", "P", "Q", "R", "S", "T", "U", "V", "W", "X", "Y", "Z",
      "[", "\\", "]", "^", "_", "GRAVE", "a", "b", "c", "d", "e", "f",
      "g", "h", "i", "j", "k", "l", "m", "n", "o", "p", "q", "r",
      "s", "t", "u", "v", "w", "x", "y", "z", "{", "|", "}", "~">>

Ord(c) == CHOOSE i \in 1..Len(Alphabet) : Alphabet[i] = c

\* str.lower() on one character: upper case letters are 32 code points below lower case.
Lower(c) == IF Ord(c) >= Ord("A") /\ Ord(c) <= Ord("Z") THEN Alphabet[Ord(c) + 32] ELSE c

LowerStr(s) == [i \in 1..Len(s) |-> Lower(s[i])]

\* Python str comparison: code point order, a proper prefix sorts first.
RECURSIVE StrLess(_, _)
StrLess(a, b) ==
    IF b = <<>> THEN FALSE
    ELSE IF a = <<>> THEN TRUE
    ELSE IF a[1] # b[1] THEN Ord(a[1]) < Ord(b[1])
    ELSE StrLess(Tail(a), Tail(b))

StartsWith(s, pre) == Len(pre) <= Len(s) /\ SubSeq(s, 1, Len(pre)) = pre

EndsWith(s, suf) == Len(suf) <= Len(s) /\ SubSeq(s, Len(s) - Len(suf) + 1, Len(s)) = suf

Contains(s, c) == \E i \in 1..Len(s) : s[i] = c

\* str.rfind as a 1-based position, 0 when absent.
RFind(s, c) == IF Contains(s, c) THEN CHOOSE i \in 1..Len(s) : s[i] = c /\ \A j \in (i+1)..Len(s) : s[j] # c ELSE 0

Rep(c, n) == [i \in 1..n |-> c]

RECURSIVE Join(_, _)
Join(strs, sep) ==
    IF strs = <<>> THEN <<>>
    ELSE IF Len(strs) = 1 THEN strs[1]
    ELSE strs[1] \o sep \o Join(Tail(strs), sep)

RECURSIVE Dec(_)
Dec(n) == IF n < 10 THEN <<Alphabet[Ord("0") + n]>> ELSE Dec(n \div 10) \o <<Alphabet[Ord("0") + (n % 10)]>>

\* sorted(xs, key=...) over <<key, item>> pairs: stable insertion by str order
\* of the key.
RECURSIVE InsertByKey(_, _)
InsertByKey(sorted, x) ==
    IF sorted = <<>> THEN <<x>>
    ELSE IF StrLess(x[1], sorted[1][1]) THEN <<x>> \o sorted
    ELSE <<sorted[1]>> \o InsertByKey(Tail(sorted), x)

RECURSIVE SortedByKey(_)
SortedByKey(xs) ==
    IF xs = <<>> THEN <<>>
    ELSE InsertByKey(SortedByKey(SubSeq(xs, 1, Len(xs) - 1)), xs[Len(xs)])

RECURSIVE SetToSeq(_)
SetToSeq(S) == IF S = {} THEN <<>> ELSE LET x == CHOOSE y \in S : TRUE IN <<x>> \o SetToSeq(S \ {x})

Range(f) == {f[i] : i \in DOMAIN f}

Perms(S) == {q \in [1..Cardinality(S) -> S] : Range(q) = S}

(***************************************************************************)
(* Names used by the bounded filesystem, command line and report           *)
(***************************************************************************)

N_proj == <<"p", "r", "o", "j">>
N_missing == <<"m", "i", "s", "s", "i", "n", "g">>
N_a_py == <<"a", ".", "p", "y">>
N_c_js == <<"c", ".", "j", "s">>
N_desktop_ini == <<"d", "e", "s", "k", "t", "o", "p", ".", "i", "n", "i">>
N_x_log == <<"x", ".", "l", "o", "g">>
N_r_md == <<"r", ".", "m", "d">>
N_sub == <<"s", "u", "b">>
N_b_js == <<"b", ".", "j", "s">>
N_build == <<"b", "u", "i", "l", "d">>
N_d_py == <<"d", ".", "p", "y">>
N_dash_x == <<"-", "x">>
N_C_PY == <<"C", ".", "P", "Y">>
N_root == <<"r", "o", "o", "t">>
N_e_py == <<"e", ".", "p", "y">>
N_deep == <<"d", "e", "e", "p">>
N_f_py == <<"f", ".", "p", "y">>
N_code_txt == <<"c", "o", "d", "e", ".", "t", "x", "t">>
N_out_txt == <<"o", "u", "t", ".", "t", "x", "t">>
N_home == <<"h", "o", "m", "e">>
N_u == <<"u">>
N_tmp == <<"t", "m", "p">>
N_w == <<"w">>
T_enhanced == <<"-", "-", "e", "n", "h", "a", "n", "c", "e", "d">>
T_o == <<"-", "o">>
T_output == <<"-", "-", "o", "u", "t", "p", "u", "t">>
T_p == <<"-", "p">>
T_preview == <<"-", "-", "p", "r", "e", "v", "i", "e", "w">>
T_extensions == <<"-", "-", "e", "x", "t", "e", "n", "s", "i", "o", "n", "s">>
T_help == <<"-", "-", "h", "e", "l", "p">>
T_h == <<"-", "h">>
T_helpword == <<"h", "e", "l", "p">>
T_log == <<"l", "o", "g">>
L_CodeStructure == <<"C", "o", "d", "e", " ", "S", "t", "r", "u", "c", "t", "u", "r", "e", ":">>
L_File == <<"F", "i", "l", "e", ":", " ">>
L_Language == <<"L", "a", "n", "g", "u", "a", "g", "e", ":", " ">>
L_Lines == <<"L", "i", "n", "e", "s", ":", " ">>
L_Code == <<" ", "(", "C", "o", "d", "e", ":", " ">>
L_Comments == <<",", " ", "C", "o", "m", "m", "e", "n", "t", "s", ":", " ">>
L_Blank == <<",", " ", "B", "l", "a", "n", "k", ":", " ">>
L_Close == <<")">>
L_Functions == <<"F", "u", "n", "c", "t", "i", "o", "n", "s", ":", " ">>
L_Classes == <<"C", "l", "a", "s", "s", "e", "s", ":", " ">>
L_Unable == <<"/", "/", " ", "U", "n", "a", "b", "l", "e", " ", "t", "o", " ", "r", "e", "a", "d", " ", "f", "i", "l", "e", " ", "c", "o", "n", "t", "e", "n", "t">>
L_Summary == <<"C", "O", "D", "E", "B", "A", "S", "E", " ", "S", "U", "M", "M", "A", "R", "Y">>
L_TotalFiles == <<"T", "o", "t", "a", "l", " ", "F", "i", "l", "e", "s", ":", " ">>
L_TotalDirectories == <<"T", "o", "t", "a", "l", " ", "D", "i", "r", "e", "c", "t", "o", "r", "i", "e", "s", ":", " ">>
L_TotalLines == <<"T", "o", "t", "a", "l", " ", "L", "i", "n", "e", "s", " ", "o", "f", " ", "C", "o", "d", "e", ":", " ">>
L_RootDirectory == <<"R", "o", "o", "t", " ", "D", "i", "r", "e", "c", "t", "o", "r", "y", ":", " ">>
L_LanguagesFound == <<"L", "a", "n", "g", "u", "a", "g", "e", "s", " ", "F", "o", "u", "n", "d", ":">>
L_files == <<" ", "f", "i", "l", "e", "s">>
L_DirectoryOverview == <<"D", "i", "r", "e", "c", "t", "o", "r", "y", " ", "O", "v", "e", "r", "v", "i", "e", "w", ":">>
L_Unknown == <<"U", "n", "k", "n", "o", "w", "n">>

(***************************************************************************)
(* CodebaseParser.__init__: configuration tables                           *)
(***************************************************************************)

DefaultCodeExtensions ==
    { <<".", "p", "y">>, <<".", "j", "s">>, <<".", "t", "s">>, <<".", "t", "s", "x">>,
      <<".", "j", "s", "x">>, <<".", "j", "a", "v", "a">>, <<".", "c", "p", "p">>,
      <<".", "c", "c">>, <<".", "c", "x", "x">>, <<".", "c">>, <<".", "h">>,
      <<".", "h", "p", "p">>, <<".", "c", "s">>, <<".", "p", "h", "p">>, <<".", "r", "b">>,
      <<".", "g", "o">>, <<".", "r", "s">>, <<".", "k", "t">>,
      <<".", "s", "w", "i", "f", "t">>, <<".", "m">>, <<".", "m", "m">>,
      <<".", "s", "c", "a", "l", "a">>, <<".", "c", "l", "j">>, <<".", "h", "s">>,
      <<".", "m", "l">>, <<".", "f", "s">>, <<".", "d", "a", "r", "t">>,
      <<".", "l", "u", "a">>, <<".", "r">>, <<".", "p", "l">>, <<".", "s", "h">>,
      <<".", "b", "a", "s", "h">>, <<".", "z", "s", "h">>, <<".", "f", "i", "s", "h">>,
      <<".", "s", "q", "l">>, <<".", "j", "s", "o", "n">>, <<".", "x", "m", "l">>,
      <<".", "y", "a", "m", "l">>, <<".", "y", "m", "l">>, <<".", "t", "o", "m", "l">>,
      <<".", "i", "n", "i">>, <<".", "c", "f", "g">> }

ignore_dirs ==
    { <<"n", "o", "d", "e", "_", "m", "o", "d", "u", "l", "e", "s">>,
      <<"_", "_", "p", "y", "c", "a", "c", "h", "e", "_", "_">>, <<".", "g", "i", "t">>,
      <<".", "s", "v", "n">>, <<".", "h", "g">>, <<"b", "u", "i", "l", "d">>,
      <<"d", "i", "s", "t">>, <<"t", "a", "r", "g", "e", "t">>, <<"b", "i", "n">>,
      <<"o", "b", "j">>, <<".", "g", "r", "a", "d", "l", "e">>, <<".", "i", "d", "e", "a">>,
      <<".", "v", "s", "c", "o", "d", "e">>, <<"v", "e", "n", "d", "o", "r">>,
      <<"c", "o", "v", "e", "r", "a", "g", "e">>,
      <<".", "n", "y", "c", "_", "o", "u", "t", "p", "u", "t">>, <<"l", "o", "g", "s">>,
      <<"t", "m", "p">>, <<"t", "e", "m", "p">>, <<".", "n", "e", "x", "t">>,
      <<".", "n", "u", "x", "t">>, <<"o", "u", "t">>,
      <<"p", "u", "b", "l", "i", "c", "/", "b", "u", "i", "l", "d">>, <<"v", "e", "n", "v">>,
      <<"e", "n", "v">>, <<".", "e", "n", "v">> }

ignore_files ==
    { <<".", "g", "i", "t", "i", "g", "n", "o", "r", "e">>,
      <<".", "d", "o", "c", "k", "e", "r", "i", "g", "n", "o", "r", "e">>,
      <<"p", "a", "c", "k", "a", "g", "e", "-", "l", "o", "c", "k", ".", "j", "s", "o", "n">>,
      <<"y", "a", "r", "n", ".", "l", "o", "c", "k">>,
      <<"P", "i", "p", "f", "i", "l", "e", ".", "l", "o", "c", "k">>,
      <<"p", "o", "e", "t", "r", "y", ".", "l", "o", "c", "k">>,
      <<".", "D", "S", "_", "S", "t", "o", "r", "e">>,
      <<"T", "h", "u", "m", "b", "s", ".", "d", "b">>,
      <<"d", "e", "s", "k", "t", "o", "p", ".", "i", "n", "i">>, <<"*", ".", "l", "o", "g">>,
      <<"*", ".", "t", "m", "p">>, <<"*", ".", "t", "e", "m", "p">> }

lang_map ==
    { <<<<".", "p", "y">>, <<"P", "y", "t", "h", "o", "n">>>>,
      <<<<".", "j", "s">>, <<"J", "a", "v", "a", "S", "c", "r", "i", "p", "t">>>>,
      <<<<".", "t", "s">>, <<"T", "y", "p", "e", "S", "c", "r", "i", "p", "t">>>>,
      <<<<".", "t", "s", "x">>, <<"T", "y", "p", "e", "S", "c", "r", "i", "p", "t", " ", "R", "e", "a", "c", "t">>>>,
      <<<<".", "j", "s", "x">>, <<"J", "a", "v", "a", "S", "c", "r", "i", "p", "t", " ", "R", "e", "a", "c", "t">>>>,
      <<<<".", "j", "a", "v", "a">>, <<"J", "a", "v", "a">>>>,
      <<<<".", "c", "p", "p">>, <<"C", "+", "+">>>>, <<<<".", "c", "c">>, <<"C", "+", "+">>>>,
      <<<<".", "c", "x", "x">>, <<"C", "+", "+">>>>, <<<<".", "c">>, <<"C">>>>,
      <<<<".", "h">>, <<"C", "/", "C", "+", "+", " ", "H", "e", "a", "d", "e", "r">>>>,
      <<<<".", "h", "p", "p">>, <<"C", "+", "+", " ", "H", "e", "a", "d", "e", "r">>>>,
      <<<<".", "c", "s">>, <<"C", "#">>>>, <<<<".", "p", "h", "p">>, <<"P", "H", "P">>>>,
      <<<<".", "r", "b">>, <<"R", "u", "b", "y">>>>, <<<<".", "g", "o">>, <<"G", "o">>>>,
      <<<<".", "r", "s">>, <<"R", "u", "s", "t">>>>,
      <<<<".", "k", "t">>, <<"K", "o", "t", "l", "i", "n">>>>,
      <<<<".", "s", "w", "i", "f", "t">>, <<"S", "w", "i", "f", "t">>>>,
      <<<<".", "m">>, <<"O", "b", "j", "e", "c", "t", "i", "v", "e", "-", "C">>>>,
      <<<<".", "m", "m">>, <<"O", "b", "j", "e", "c", "t", "i", "v", "e", "-", "C", "+", "+">>>>,
      <<<<".", "s", "c", "a", "l", "a">>, <<"S", "c", "a", "l", "a">>>>,
      <<<<".", "c", "l", "j">>, <<"C", "l", "o", "j", "u", "r", "e">>>>,
      <<<<".", "h", "s">>, <<"H", "a", "s", "k", "e", "l", "l">>>>,
      <<<<".", "m", "l">>, <<"O", "C", "a", "m", "l">>>>, <<<<".", "f", "s">>, <<"F", "#">>>>,
      <<<<".", "d", "a", "r", "t">>, <<"D", "a", "r", "t">>>>,
      <<<<".", "l", "u", "a">>, <<"L", "u", "a">>>>, <<<<".", "r">>, <<"R">>>>,
      <<<<".", "p", "l">>, <<"P", "e", "r", "l">>>>,
      <<<<".", "s", "h">>, <<"S", "h", "e", "l", "l">>>>,
      <<<<".", "b", "a", "s", "h">>, <<"B", "a", "s", "h">>>>,
      <<<<".", "z", "s", "h">>, <<"Z", "s", "h">>>>,
      <<<<".", "f", "i", "s", "h">>, <<"F", "i", "s", "h">>>>,
      <<<<".", "s", "q", "l">>, <<"S", "Q", "L">>>>,
      <<<<".", "j", "s", "o", "n">>, <<"J", "S", "O", "N">>>>,
      <<<<".", "x", "m", "l">>, <<"X", "M", "L">>>>,
      <<<<".", "y", "a", "m", "l">>, <<"Y", "A", "M", "L">>>>,
      <<<<".", "y", "m", "l">>, <<"Y", "A", "M", "L">>>>,
      <<<<".", "t", "o", "m", "l">>, <<"T", "O", "M", "L">>>>,
      <<<<".", "i", "n", "i">>, <<"I", "N", "I">>>>,
      <<<<".", "c", "f", "g">>, <<"C", "o", "n", "f", "i", "g">>>> }

(***************************************************************************)
(* Bounds of the model                                                     *)
(***************************************************************************)

\* Entries in the project directory in the runs that vary the tree.
MaxEntries == 4

\* Directories with a permission bit removed.
MaxLocked == 1

\* Option groups on the command line in the runs that vary the command line.
MaxArgs == 3

\* Process runs on the same filesystem.
MaxRuns == 2

\* Chunks typed into the analysed text.
MaxChunks == 4

(***************************************************************************)
(* Program constants                                                       *)
(***************************************************************************)

\* generate_separator(length=43)
SepLen == 43

\* "=" * 100 and "-" * 100
RuleLen == 100

(***************************************************************************)
(* State                                                                   *)
(***************************************************************************)

VARIABLES
    argv,            \* sys.argv[1:], a sequence of tokens
    cwd,             \* absolute path of the working directory
    tree,            \* existing project entries, paths relative to cwd
    noRead,          \* directories of tree that cannot be listed
    noSearch,        \* directories of tree whose entries cannot be stat-ed
    outFiles,        \* output file name -> its text, or NoFile
    readOnly,        \* output file names that cannot be opened for writing
    pc,              \* position of the process
    mode,            \* which entry point runs: standard, preview, enhanced
    root_path,       \* CodebaseParser.root_path (absolute)
    output_file,     \* CodebaseParser.output_file
    code_extensions, \* CodebaseParser.code_extensions
    walk,            \* rglob: directories still to be listed, next first
    subdirs,         \* rglob: subdirectories of the listed directory, as yielded
    items,           \* rglob: entries of the listed directory still to be yielded
    structure,       \* scan_directory: parent_dir -> list of files
    visited,         \* entries handed to should_ignore_path
    stdout,          \* printed diagnostics
    exit_code,       \* process exit status, NoExit while running
    result,          \* what parse_and_output returned: None, True or False
    run,             \* number of the current process run
    first,           \* what the first run left behind
    a_content,       \* analyze_file_complexity: content argument
    a_ext,           \* analyze_file_complexity: file_path.suffix
    a_stats,         \* analyze_file_complexity: returned dictionary
    a_typed          \* chunks of text put into a_content

vars == <<argv, cwd, tree, noRead, noSearch, outFiles, readOnly, pc, mode, root_path,
          output_file, code_extensions, walk, subdirs, items, structure, visited, stdout,
          exit_code, result, run, first, a_content, a_ext, a_stats, a_typed>>

fsVars == <<cwd, tree, noRead, noSearch, readOnly>>

analyzeVars == <<a_content, a_ext, a_stats, a_typed>>

\* An output file that does not exist, and one holding text.
NoFile == [exists |-> FALSE, text |-> <<>>]

File(text) == [exists |-> TRUE, text |-> text]

NoExit == -1

(***************************************************************************)
(* pathlib                                                                 *)
(***************************************************************************)

\* PurePath.name
Name(path) == IF path = <<>> THEN <<>> ELSE path[Len(path)]

\* PurePath.parent
Parent(path) == IF path = <<>> THEN <<>> ELSE SubSeq(path, 1, Len(path) - 1)

\* PurePath.suffix: from the last dot, unless it is the first or last character.
Suffix(name) ==
    LET i == RFind(name, ".")
    IN  IF 1 < i /\ i < Len(name) THEN SubSeq(name, i, Len(name)) ELSE <<>>

\* PurePath.stem
Stem(name) ==
    LET i == RFind(name, ".")
    IN  IF 1 < i /\ i < Len(name) THEN SubSeq(name, 1, i - 1) ELSE name

\* str() of a relative path: "." when it has no parts.
StrRel(path) == IF path = <<>> THEN <<".">> ELSE Join(path, <<"/">>)

\* str() of an absolute path.
StrAbs(path) == <<"/">> \o Join(path, <<"/">>)

\* Path.relative_to for a path below base.
RelativeTo(path, base) == SubSeq(path, Len(base) + 1, Len(path))

IsPrefix(p, q) == Len(p) <= Len(q) /\ SubSeq(q, 1, Len(p)) = p

\* Path(arg).resolve() in the working directory; "." names the directory itself.
Resolve(arg) == IF arg = <<".">> THEN cwd ELSE cwd \o <<arg>>

(***************************************************************************)
(* Filesystem                                                              *)
(***************************************************************************)

Proj == <<N_proj>>

TreeDirs ==
    { Proj, Proj \o <<N_sub>>, Proj \o <<N_build>>, Proj \o <<N_dash_x>>,
      Proj \o <<N_root>>, Proj \o <<N_sub, N_deep>> }

TreeFiles ==
    { Proj \o <<N_a_py>>, Proj \o <<N_c_js>>, Proj \o <<N_desktop_ini>>, Proj \o <<N_x_log>>, Proj \o <<N_r_md>>,
      Proj \o <<N_sub, N_b_js>>, Proj \o <<N_build, N_d_py>>, Proj \o <<N_dash_x, N_C_PY>>,
      Proj \o <<N_root, N_e_py>>, Proj \o <<N_sub, N_deep, N_f_py>> }

OutputNames == {N_code_txt, N_out_txt}

\* Absolute paths of everything that exists at or below the working directory.
FsPaths ==
    {cwd} \cup {cwd \o p : p \in tree}
          \cup {cwd \o <<n>> : n \in {m \in OutputNames : outFiles[m] # NoFile}}

Exists(path) == path \in FsPaths \/ IsPrefix(path, cwd)

IsDirectory(path) == IsPrefix(path, cwd) \/ \E p \in tree \cap TreeDirs : path = cwd \o p

IsRegularFile(path) == Exists(path) /\ ~IsDirectory(path)

\* os.scandir order is not specified: any order of the entries.
Children(dir) == {e \in FsPaths : e # dir /\ Parent(e) = dir}

\* stat() fails with EACCES when a directory on the way lacks search permission.
StatDenied(path) ==
    \E k \in 1..(Len(path) - 1) : \E d \in noSearch : SubSeq(path, 1, k) = cwd \o d

\* os.scandir fails with EACCES when the directory lacks read permission or
\* cannot be reached.
ScandirDenied(dir) == StatDenied(dir) \/ \E d \in noRead : dir = cwd \o d

\* Contents of the project files.
FileText(path) ==
    CASE Name(path) = N_a_py -> <<"#", " ", "h", "i", "\n", "\n", "d", "e", "f", " ", "f", "(", ")", ":", "\n">>
      [] Name(path) \in {N_b_js, N_c_js} -> <<"/", "/", "j", "\n", "x", "\n">>
      [] Name(path) = N_f_py -> <<>>
      [] OTHER -> <<"x", "\n">>

(***************************************************************************)
(* PathClassifier                                                          *)
(***************************************************************************)

\* should_ignore_path without the loop over path.parents.
should_ignore_path_own_name(path) ==
    IF StatDenied(path) THEN "PermissionError"
    ELSE IF IsDirectory(path) /\ Name(path) \in ignore_dirs THEN "ignore"
    ELSE IF IsRegularFile(path)
            /\ ( \/ Name(path) \in ignore_files
                 \/ \E ignore_pattern \in ignore_files :
                        Contains(ignore_pattern, "*") /\ EndsWith(Name(path), Tail(ignore_pattern)) )
         THEN "ignore"
    ELSE "keep"

\* The result is "ignore", "keep" or "PermissionError" (is_dir() and is_file()
\* propagate EACCES from stat).
should_ignore_path(path) ==
    IF \E k \in 1..(Len(path) - 1) : path[k] \in ignore_dirs THEN "ignore"
    ELSE IF StatDenied(path) THEN "PermissionError"
    ELSE IF IsDirectory(path) /\ Name(path) \in ignore_dirs THEN "ignore"
    ELSE IF IsRegularFile(path)
            /\ ( \/ Name(path) \in ignore_files
                 \/ \E ignore_pattern \in ignore_files :
                        Contains(ignore_pattern, "*") /\ EndsWith(Name(path), Tail(ignore_pattern)) )
         THEN "ignore"
    ELSE "keep"

is_code_file(file_path) == LowerStr(Suffix(Name(file_path))) \in code_extensions

get_language_from_extension(extension) ==
    IF \E e \in lang_map : e[1] = LowerStr(extension)
    THEN (CHOOSE e \in lang_map : e[1] = LowerStr(extension))[2]
    ELSE L_Unknown

\* scan_directory lines 98-99: the key of the group a retained file goes to.
parent_dir(item) ==
    LET rel_path == RelativeTo(item, root_path)
    IN  IF Name(Parent(rel_path)) # <<".">> THEN StrRel(Parent(rel_path)) ELSE N_root


(***************************************************************************)
(* HeuristicAnalyzer                                                       *)
(***************************************************************************)

IsSpace(c) == c \in {" ", "\n"}

IsUpper(c) == Ord(c) >= Ord("A") /\ Ord(c) <= Ord("Z")

IsWord(c) ==
    \/ IsUpper(c)
    \/ Ord(c) >= Ord("a") /\ Ord(c) <= Ord("z")
    \/ Ord(c) >= Ord("0") /\ Ord(c) <= Ord("9")
    \/ c = "_"

InClass(c, cls) ==
    CASE cls = "SPACE" -> IsSpace(c)
      [] cls = "WORD" -> IsWord(c)
      [] cls = "UPPER" -> IsUpper(c)
      [] cls = "ANY" -> c # "\n"
      [] OTHER -> c = cls

\* A pattern is a sequence of <<class, quantifier>> atoms, anchored at the
\* start of the line as ^ with re.match is.
Lit(s) == [i \in 1..Len(s) |-> <<s[i], "1">>]

Sp0 == << <<"SPACE", "*">> >>

Sp1 == << <<"SPACE", "+">> >>

W1 == << <<"WORD", "+">> >>

Any0 == << <<"ANY", "*">> >>

Up == << <<"UPPER", "1">> >>

\* Backtracking match of atoms k.. of pat against line from position i.
RECURSIVE MatchAt(_, _, _, _)
MatchAt(pat, k, line, i) ==
    IF k > Len(pat) THEN TRUE
    ELSE LET cls == pat[k][1]
             q == pat[k][2]
             here == i <= Len(line) /\ InClass(line[i], cls)
         IN  CASE q = "1" -> here /\ MatchAt(pat, k + 1, line, i + 1)
               [] q = "*" -> MatchAt(pat, k + 1, line, i) \/ (here /\ MatchAt(pat, k, line, i + 1))
               [] q = "+" -> here /\ (MatchAt(pat, k + 1, line, i + 1) \/ MatchAt(pat, k, line, i + 1))

\* any(regex.match(line) for regex in regexes)
AnyMatch(regexes, line) == \E pat \in regexes : MatchAt(pat, 1, line, 1)

\* The pattern tables of analyze_file_complexity.  An optional group (a|b)?
\* is written out as its alternatives, which match the same lines.
comment_patterns(ext) ==
    CASE ext = <<".", "p", "y">> ->
      { Sp0 \o Lit(<<"#">>),
        Sp0 \o Lit(<<"\"", "\"", "\"">>),
        Sp0 \o Lit(<<"'", "'", "'">>) }
      [] ext = <<".", "j", "s">> ->
      { Sp0 \o Lit(<<"/", "/">>),
        Sp0 \o Lit(<<"/", "*">>),
        Sp0 \o Lit(<<"*">>) }
      [] ext = <<".", "t", "s">> ->
      { Sp0 \o Lit(<<"/", "/">>),
        Sp0 \o Lit(<<"/", "*">>),
        Sp0 \o Lit(<<"*">>) }
      [] ext = <<".", "j", "a", "v", "a">> ->
      { Sp0 \o Lit(<<"/", "/">>),
        Sp0 \o Lit(<<"/", "*">>),
        Sp0 \o Lit(<<"*">>) }
      [] ext = <<".", "c", "p", "p">> ->
      { Sp0 \o Lit(<<"/", "/">>),
        Sp0 \o Lit(<<"/", "*">>),
        Sp0 \o Lit(<<"*">>) }
      [] ext = <<".", "c">> ->
      { Sp0 \o Lit(<<"/", "/">>),
        Sp0 \o Lit(<<"/", "*">>),
        Sp0 \o Lit(<<"*">>) }
      [] OTHER -> {}

function_patterns(ext) ==
    CASE ext = <<".", "p", "y">> ->
      { Sp0 \o Lit(<<"d", "e", "f">>) \o Sp1 \o W1,
        Sp0 \o Lit(<<"a", "s", "y", "n", "c">>) \o Sp1 \o Lit(<<"d", "e", "f">>) \o Sp1 \o W1 }
      [] ext = <<".", "j", "s">> ->
      { Sp0 \o Lit(<<"f", "u", "n", "c", "t", "i", "o", "n">>) \o Sp1 \o W1,
        Sp0 \o Lit(<<"c", "o", "n", "s", "t">>) \o Sp1 \o W1 \o Sp0 \o Lit(<<"=">>) \o Any0 \o Lit(<<"=", ">">>),
        Sp0 \o W1 \o Sp0 \o Lit(<<":">>) \o Sp0 \o Lit(<<"f", "u", "n", "c", "t", "i", "o", "n">>) }
      [] ext = <<".", "t", "s">> ->
      { Sp0 \o Lit(<<"f", "u", "n", "c", "t", "i", "o", "n">>) \o Sp1 \o W1,
        Sp0 \o Lit(<<"c", "o", "n", "s", "t">>) \o Sp1 \o W1 \o Sp0 \o Lit(<<"=">>) \o Any0 \o Lit(<<"=", ">">>),
        Sp0 \o W1 \o Sp0 \o Lit(<<"(">>) \o Any0 \o Lit(<<")">>) \o Sp0 \o Lit(<<":">>) \o Sp0 \o W1 \o Sp0 \o Lit(<<"{">>) }
      [] ext = <<".", "j", "a", "v", "a">> ->
      { Sp0 \o Lit(<<"p", "u", "b", "l", "i", "c">>) \o Sp0 \o Lit(<<"s", "t", "a", "t", "i", "c">>) \o Sp0 \o W1 \o Sp1 \o W1 \o Sp0 \o Lit(<<"(">>),
        Sp0 \o Lit(<<"p", "r", "i", "v", "a", "t", "e">>) \o Sp0 \o Lit(<<"s", "t", "a", "t", "i", "c">>) \o Sp0 \o W1 \o Sp1 \o W1 \o Sp0 \o Lit(<<"(">>),
        Sp0 \o Lit(<<"p", "r", "o", "t", "e", "c", "t", "e", "d">>) \o Sp0 \o Lit(<<"s", "t", "a", "t", "i", "c">>) \o Sp0 \o W1 \o Sp1 \o W1 \o Sp0 \o Lit(<<"(">>),
        Sp0 \o Sp0 \o Lit(<<"s", "t", "a", "t", "i", "c">>) \o Sp0 \o W1 \o Sp1 \o W1 \o Sp0 \o Lit(<<"(">>),
        Sp0 \o Lit(<<"p", "u", "b", "l", "i", "c">>) \o Sp0 \o Sp0 \o W1 \o Sp1 \o W1 \o Sp0 \o Lit(<<"(">>),
        Sp0 \o Lit(<<"p", "r", "i", "v", "a", "t", "e">>) \o Sp0 \o Sp0 \o W1 \o Sp1 \o W1 \o Sp0 \o Lit(<<"(">>),
        Sp0 \o Lit(<<"p", "r", "o", "t", "e", "c", "t", "e", "d">>) \o Sp0 \o Sp0 \o W1 \o Sp1 \o W1 \o Sp0 \o Lit(<<"(">>),
        Sp0 \o Sp0 \o Sp0 \o W1 \o Sp1 \o W1 \o Sp0 \o Lit(<<"(">>) }
      [] ext = <<".", "c", "p", "p">> ->
      { Sp0 \o W1 \o Sp1 \o W1 \o Sp0 \o Lit(<<"(">>),
        Sp0 \o Lit(<<"p", "u", "b", "l", "i", "c", ":">>) \o Sp0 \o W1,
        Sp0 \o Lit(<<"p", "r", "i", "v", "a", "t", "e", ":">>) \o Sp0 \o W1,
        Sp0 \o Lit(<<"p", "r", "o", "t", "e", "c", "t", "e", "d", ":">>) \o Sp0 \o W1 }
      [] ext = <<".", "c">> ->
      { Sp0 \o W1 \o Sp1 \o W1 \o Sp0 \o Lit(<<"(">>) }
      [] OTHER -> {}

class_patterns(ext) ==
    CASE ext = <<".", "p", "y">> ->
      { Sp0 \o Lit(<<"c", "l", "a", "s", "s">>) \o Sp1 \o W1 }
      [] ext = <<".", "j", "s">> ->
      { Sp0 \o Lit(<<"c", "l", "a", "s", "s">>) \o Sp1 \o W1,
        Sp0 \o Lit(<<"f", "u", "n", "c", "t", "i", "o", "n">>) \o Sp1 \o Up \o W1 }
      [] ext = <<".", "t", "s">> ->
      { Sp0 \o Lit(<<"c", "l", "a", "s", "s">>) \o Sp1 \o W1,
        Sp0 \o Lit(<<"i", "n", "t", "e", "r", "f", "a", "c", "e">>) \o Sp1 \o W1,
        Sp0 \o Lit(<<"t", "y", "p", "e">>) \o Sp1 \o W1 }
      [] ext = <<".", "j", "a", "v", "a">> ->
      { Sp0 \o Lit(<<"p", "u", "b", "l", "i", "c">>) \o Sp0 \o Lit(<<"c", "l", "a", "s", "s">>) \o Sp1 \o W1,
        Sp0 \o Lit(<<"p", "r", "i", "v", "a", "t", "e">>) \o Sp0 \o Lit(<<"c", "l", "a", "s", "s">>) \o Sp1 \o W1,
        Sp0 \o Sp0 \o Lit(<<"c", "l", "a", "s", "s">>) \o Sp1 \o W1,
        Sp0 \o Lit(<<"i", "n", "t", "e", "r", "f", "a", "c", "e">>) \o Sp1 \o W1 }
      [] ext = <<".", "c", "p", "p">> ->
      { Sp0 \o Lit(<<"c", "l", "a", "s", "s">>) \o Sp1 \o W1,
        Sp0 \o Lit(<<"s", "t", "r", "u", "c", "t">>) \o Sp1 \o W1 }
      [] ext = <<".", "c">> ->
      { Sp0 \o Lit(<<"s", "t", "r", "u", "c", "t">>) \o Sp1 \o W1,
        Sp0 \o Lit(<<"t", "y", "p", "e", "d", "e", "f">>) \o Sp1 \o Lit(<<"s", "t", "r", "u", "c", "t">>) }
      [] OTHER -> {}

\* str.split(sep)
RECURSIVE Split(_, _)
Split(s, sep) ==
    IF ~Contains(s, sep) THEN <<s>>
    ELSE LET i == CHOOSE j \in 1..Len(s) : s[j] = sep /\ \A k \in 1..(j - 1) : s[k] # sep
         IN  <<SubSeq(s, 1, i - 1)>> \o Split(SubSeq(s, i + 1, Len(s)), sep)

\* str.splitlines(): no empty last line after a final line break.
RECURSIVE SplitLines(_)
SplitLines(s) ==
    IF s = <<>> THEN <<>>
    ELSE IF ~Contains(s, "\n") THEN <<s>>
    ELSE LET i == CHOOSE j \in 1..Len(s) : s[j] = "\n" /\ \A k \in 1..(j - 1) : s[k] # "\n"
         IN  <<SubSeq(s, 1, i - 1)>> \o SplitLines(SubSeq(s, i + 1, Len(s)))

\* str.strip()
RECURSIVE Strip(_)
Strip(s) ==
    IF s = <<>> THEN <<>>
    ELSE IF IsSpace(s[1]) THEN Strip(Tail(s))
    ELSE IF IsSpace(s[Len(s)]) THEN Strip(SubSeq(s, 1, Len(s) - 1))
    ELSE s

EmptyDict == [k \in {} |-> 0]

\* One pass of the loop at lines 396-410 over a line.
ClassifyLine(line, ext) ==
    IF Strip(line) = <<>> THEN "blank"
    ELSE IF AnyMatch(comment_patterns(ext), line) THEN "comment"
    ELSE "code"

CountLines(lines, ext, kind) == Cardinality({i \in 1..Len(lines) : ClassifyLine(lines[i], ext) = kind})

\* lines_total taken from split on the line break, which counts the empty
\* string after a final line break.
analyze_file_complexity_split(content, suffix) ==
    IF content = <<>> THEN EmptyDict
    ELSE LET lines == SplitLines(content)
             ext == LowerStr(suffix)
             code == {i \in 1..Len(lines) : ClassifyLine(lines[i], ext) = "code"}
         IN  [ lines_total   |-> Len(Split(content, "\n")),
               lines_code    |-> Cardinality(code),
               lines_comment |-> CountLines(lines, ext, "comment"),
               lines_blank   |-> CountLines(lines, ext, "blank"),
               functions     |-> Cardinality({i \in code : AnyMatch(function_patterns(ext), lines[i])}),
               classes       |-> Cardinality({i \in code : AnyMatch(class_patterns(ext), lines[i])}) ]

analyze_file_complexity(content, suffix) ==
    IF content = <<>> THEN EmptyDict
    ELSE LET lines == SplitLines(content)
             ext == LowerStr(suffix)
             code == {i \in 1..Len(lines) : ClassifyLine(lines[i], ext) = "code"}
         IN  [ lines_total   |-> Len(lines),
               lines_code    |-> Cardinality(code),
               lines_comment |-> CountLines(lines, ext, "comment"),
               lines_blank   |-> CountLines(lines, ext, "blank"),
               functions     |-> Cardinality({i \in code : AnyMatch(function_patterns(ext), lines[i])}),
               classes       |-> Cardinality({i \in code : AnyMatch(class_patterns(ext), lines[i])}) ]


(***************************************************************************)
(* ContentReader                                                           *)
(***************************************************************************)

\* The project files of the model are readable UTF-8 text.
read_file_content(file_path) == FileText(file_path)

(***************************************************************************)
(* ReportFormatter                                                         *)
(***************************************************************************)

RECURSIVE Flatten(_)
Flatten(seqs) == IF seqs = <<>> THEN <<>> ELSE seqs[1] \o Flatten(Tail(seqs))

Upper(c) == IF Ord(c) >= Ord("a") /\ Ord(c) <= Ord("z") THEN Alphabet[Ord(c) - 32] ELSE c

UpperStr(s) == [i \in 1..Len(s) |-> Upper(s[i])]

Rule(c) == Rep(c, RuleLen)

\* "\n" + "=" * 100 + "\n"
EndBlock == <<"\n">> \o Rule("=") \o <<"\n">>

generate_separator(text) == Rep("-", SepLen) \o text \o Rep("-", SepLen)

\* sorted(structure.keys())
sorted_dirs(st) ==
    LET keys == SetToSeq(DOMAIN st)
        pairs == SortedByKey([i \in 1..Len(keys) |-> <<keys[i], keys[i]>>])
    IN  [i \in 1..Len(pairs) |-> pairs[i][2]]

\* sorted(structure[directory], key=lambda x: x.name)
sorted_files(st, directory) ==
    LET fs == st[directory]
        pairs == SortedByKey([i \in 1..Len(fs) |-> <<Name(fs[i]), fs[i]>>])
    IN  [i \in 1..Len(pairs) |-> pairs[i][2]]

\* format_directory_structure lines 141-148: the lines printed for a key.
dir_lines(directory) ==
    IF directory = N_root THEN << <<".">> >>
    ELSE LET parts == Split(directory, "/")
         IN  [i \in 1..Len(parts) |-> Rep(" ", 2 * (i - 1)) \o parts[i]]

\* format_directory_structure lines 151-156: the lines printed for its files.
file_lines(st, directory) ==
    LET files == sorted_files(st, directory)
    IN  [i \in 1..Len(files) |->
            LET depth == Len(RelativeTo(files[i], root_path)) - 1
            IN  Rep(" ", 2 * (depth + 1)) \o Name(files[i])]

tree_lines(st) ==
    LET dirs == sorted_dirs(st)
    IN  <<L_CodeStructure>>
        \o Flatten([i \in 1..Len(dirs) |-> dir_lines(dirs[i]) \o file_lines(st, dirs[i])])

format_directory_structure(st) == Join(tree_lines(st), <<"\n">>)

\* lines 190-195 and 462-466: a falsy content is replaced.
content_or_placeholder(file_path) ==
    LET content == read_file_content(file_path)
    IN  IF content # <<>> THEN content ELSE L_Unable

\* generate_code_output lines 174-197 for one file.
code_section(directory, file_path) ==
    LET rel_path == RelativeTo(file_path, root_path)
        file_name == Stem(Name(file_path))
        section_header == IF directory = N_root THEN file_name ELSE directory \o <<"/">> \o file_name
    IN  << generate_separator(section_header),
           L_File \o StrRel(rel_path),
           Rule("-"),
           content_or_placeholder(file_path),
           EndBlock >>

generate_code_output(st) ==
    LET dirs == sorted_dirs(st)
        sections(d) == LET files == sorted_files(st, d)
                       IN  Flatten([i \in 1..Len(files) |-> code_section(d, files[i])])
    IN  Join(<<format_directory_structure(st), EndBlock>>
             \o Flatten([i \in 1..Len(dirs) |-> sections(dirs[i])]), <<"\n">>)

\* generate_enhanced_output lines 432-468 for one file.
enhanced_section(file_path) ==
    LET rel_path == RelativeTo(file_path, root_path)
        content == read_file_content(file_path)
        file_stats == analyze_file_complexity(content, Suffix(Name(file_path)))
        stat_lines ==
            IF content = <<>> \/ DOMAIN file_stats = {} THEN <<>>
            ELSE << L_Lines \o Dec(file_stats.lines_total) \o L_Code \o Dec(file_stats.lines_code)
                    \o L_Comments \o Dec(file_stats.lines_comment)
                    \o L_Blank \o Dec(file_stats.lines_blank) \o L_Close >>
                 \o (IF file_stats.functions > 0 THEN <<L_Functions \o Dec(file_stats.functions)>> ELSE <<>>)
                 \o (IF file_stats.classes > 0 THEN <<L_Classes \o Dec(file_stats.classes)>> ELSE <<>>)
    IN  << generate_separator(Stem(Name(file_path))),
           L_File \o StrRel(rel_path),
           L_Language \o get_language_from_extension(Suffix(Name(file_path))) >>
        \o stat_lines
        \o << Rule("-"), content_or_placeholder(file_path), EndBlock >>

generate_enhanced_output(st) ==
    LET dirs == sorted_dirs(st)
        sections(d) == LET files == sorted_files(st, d)
                       IN  <<generate_separator(UpperStr(d)), <<>>>>
                           \o Flatten([i \in 1..Len(files) |-> enhanced_section(files[i])])
    IN  Join(<<format_directory_structure(st), EndBlock>>
             \o Flatten([i \in 1..Len(dirs) |-> sections(dirs[i])]), <<"\n">>)

\* Every file of every list, list after list.
all_files(st) ==
    LET keys == SetToSeq(DOMAIN st)
    IN  Flatten([i \in 1..Len(keys) |-> st[keys[i]]])

RECURSIVE SumSeq(_)
SumSeq(ns) == IF ns = <<>> THEN 0 ELSE ns[1] + SumSeq(Tail(ns))

\* get_project_stats lines 210-211: the sum of the list lengths.
total_files(st) ==
    LET keys == SetToSeq(DOMAIN st)
    IN  SumSeq([i \in 1..Len(keys) |-> Len(st[keys[i]])])

get_project_stats(st) ==
    LET files == all_files(st)
        language(f) == get_language_from_extension(Suffix(Name(f)))
    IN  [ total_files       |-> total_files(st),
          total_directories |-> Cardinality(DOMAIN st),
          total_lines       |-> SumSeq([i \in 1..Len(files) |-> Len(SplitLines(read_file_content(files[i])))]),
          languages         |-> [l \in {language(files[i]) : i \in 1..Len(files)} |->
                                    Cardinality({i \in 1..Len(files) : language(files[i]) = l})] ]

generate_summary(st, stats) ==
    LET langs == SetToSeq(DOMAIN stats.languages)
        langsSorted == SortedByKey([i \in 1..Len(langs) |-> <<langs[i], langs[i]>>])
        dirs == sorted_dirs(st)
    IN  Join(<< Rule("="), L_Summary, Rule("="),
                L_TotalFiles \o Dec(stats.total_files),
                L_TotalDirectories \o Dec(stats.total_directories),
                L_TotalLines \o Dec(stats.total_lines),
                L_RootDirectory \o StrAbs(root_path),
                <<>>,
                L_LanguagesFound >>
             \o [i \in 1..Len(langsSorted) |->
                    <<" ", " ">> \o langsSorted[i][2] \o <<":", " ">>
                    \o Dec(stats.languages[langsSorted[i][2]]) \o L_files]
             \o << <<>>, L_DirectoryOverview >>
             \o [i \in 1..Len(dirs) |->
                    <<" ", " ">> \o dirs[i] \o <<":", " ">> \o Dec(Len(st[dirs[i]])) \o L_files]
             \o << Rule("=") >>, <<"\n">>)

\* What parse_and_output writes to the output file.
report_text(st, enhanced) ==
    generate_summary(st, get_project_stats(st)) \o <<"\n", "\n">>
    \o (IF enhanced THEN generate_enhanced_output(st) ELSE generate_code_output(st))


(***************************************************************************)
(* Command line                                                            *)
(***************************************************************************)

\* argparse treats a string that starts with "-" (and is not "-") as an option.
IsOption(t) == Len(t) > 1 /\ t[1] = "-"

\* parser.parse_args() over the arguments of main (lines 308-318).  status is
\* "ok", "help" (argparse prints its help and exits 0) or "error" (exits 2).
\* Strings nothing consumes are reported once all arguments are read.
RECURSIVE parse_args(_, _)
parse_args(args, ns) ==
    IF args = <<>> THEN (IF ns.extras THEN [ns EXCEPT !.status = "error"] ELSE ns)
    ELSE LET t == args[1]
         IN  IF t \in {T_help, T_h} THEN [ns EXCEPT !.status = "help"]
             ELSE IF t \in {T_o, T_output, T_extensions}
                  THEN IF Len(args) < 2 \/ IsOption(args[2])
                       THEN [ns EXCEPT !.status = "error"]
                       ELSE parse_args(SubSeq(args, 3, Len(args)),
                                       IF t = T_extensions
                                       THEN [ns EXCEPT !.extensions = args[2]]
                                       ELSE [ns EXCEPT !.output = args[2]])
             ELSE IF t \in {T_p, T_preview}
                  THEN parse_args(Tail(args), [ns EXCEPT !.preview = TRUE])
             ELSE IF IsOption(t) \/ ns.has_path
                  THEN parse_args(Tail(args), [ns EXCEPT !.extras = TRUE])
             ELSE parse_args(Tail(args), [ns EXCEPT !.path = t, !.has_path = TRUE])

Defaults ==
    [ path |-> <<".">>, output |-> N_code_txt, preview |-> FALSE, extensions |-> <<>>,
      status |-> "ok", has_path |-> FALSE, extras |-> FALSE ]

\* main lines 324-329: the extensions added by --extensions.
custom_extensions(arg) ==
    IF arg = <<>> THEN {}
    ELSE LET custom_exts == Split(arg, ",")
         IN  { LowerStr(IF StartsWith(Strip(custom_exts[i]), <<".">>)
                        THEN Strip(custom_exts[i])
                        ELSE <<".">> \o Strip(custom_exts[i])) : i \in 1..Len(custom_exts) }

\* list.remove: the list without the first occurrence of x.
RemoveFirst(xs, x) ==
    LET i == CHOOSE j \in 1..Len(xs) : xs[j] = x /\ \A k \in 1..(j - 1) : xs[k] # x
    IN  SubSeq(xs, 1, i - 1) \o SubSeq(xs, i + 1, Len(xs))

IsHelp == argv # <<>> /\ argv[1] \in {T_help, T_h, T_helpword}

IsEnhanced == \E i \in 1..Len(argv) : argv[i] = T_enhanced

Say(msg) == [msg |-> msg, text |-> <<>>]

SayText(msg, text) == [msg |-> msg, text |-> text]

EmptyStructure == [k \in {} |-> <<>>]

NoFirst == [exit |-> NoExit, out |-> <<>>, stdout |-> <<>>]

(***************************************************************************)
(* Initial states                                                          *)
(***************************************************************************)

Cwds == { <<N_home, N_u>>, <<N_tmp, N_w>> }

\* Trees: the project directory with up to n more entries, parents included.
Trees(n) ==
    { {Proj} \cup S : S \in { T \in SUBSET ((TreeDirs \cup TreeFiles) \ {Proj}) :
                                /\ Cardinality(T) <= n
                                /\ \A p \in T : Parent(p) \in T \cup {Proj} } }

SmallTrees == { {Proj}, {Proj, Proj \o <<N_a_py>>} }

\* The command lines of the runs that vary the tree.
ScanArgvs ==
    { <<T_enhanced, N_proj>>, <<T_p, N_proj>>, <<N_proj, T_extensions, T_log>>,
      <<T_help>>, <<N_missing>> }

\* The command lines of the runs that vary the command line: up to MaxArgs
\* option groups in any order.
Groups ==
    { <<T_enhanced>>, <<T_o, N_out_txt>>, <<T_p>>, <<N_proj>>, <<N_missing>>,
      <<T_extensions, T_log>>, <<T_help>> }

CliArgvs ==
    { Flatten(q) : q \in UNION { Perms(G) : G \in {H \in SUBSET Groups : Cardinality(H) <= MaxArgs} } }

OldText == <<"o", "l", "d">>

Idle ==
    /\ pc = "__main__"
    /\ mode = "none"
    /\ root_path = <<>>
    /\ output_file = <<>>
    /\ code_extensions = {}
    /\ walk = <<>>
    /\ subdirs = <<>>
    /\ items = {}
    /\ structure = EmptyStructure
    /\ visited = {}
    /\ stdout = <<>>
    /\ exit_code = NoExit
    /\ result = "None"
    /\ run = 1
    /\ first = NoFirst
    /\ a_content = <<>>
    /\ a_ext = <<>>
    /\ a_stats = EmptyDict
    /\ a_typed = 0

InitScan ==
    /\ Idle
    /\ argv \in ScanArgvs
    /\ cwd = <<N_home, N_u>>
    /\ tree \in Trees(MaxEntries)
    /\ \E locked \in SUBSET (tree \cap TreeDirs) :
          /\ Cardinality(locked) <= MaxLocked
          /\ \/ noRead = locked /\ noSearch = {}
             \/ noRead = {} /\ noSearch = locked
    /\ outFiles = [n \in OutputNames |-> NoFile]
    /\ readOnly = {}

InitCli ==
    /\ Idle
    /\ argv \in CliArgvs
    /\ cwd \in Cwds
    /\ tree \in SmallTrees
    /\ noRead = {}
    /\ noSearch = {}
    /\ outFiles \in { [n \in OutputNames |-> NoFile], [n \in OutputNames |-> File(OldText)] }
    /\ readOnly \in { {}, OutputNames }

Init == InitScan


(***************************************************************************)
(* Entry points                                                            *)
(***************************************************************************)

scanVars == <<walk, subdirs, items, structure, visited>>

parserVars == <<mode, root_path, output_file, code_extensions>>

\* __main__ lines 548-550: help as the first argument.
create_example_usage ==
    /\ pc = "__main__"
    /\ IsHelp
    /\ stdout' = Append(stdout, Say("USAGE EXAMPLES"))
    /\ exit_code' = 0
    /\ pc' = "exit"
    /\ UNCHANGED <<argv, fsVars, outFiles, parserVars, scanVars, result, run, first, analyzeVars>>

\* __main__ lines 553-560: --enhanced is removed from sys.argv and the parser
\* is built from what is then the first argument; no other option is read.
enhanced_entry ==
    /\ pc = "__main__"
    /\ ~IsHelp
    /\ IsEnhanced
    /\ LET rest == RemoveFirst(argv, T_enhanced)
       IN  root_path' = Resolve(IF rest # <<>> THEN rest[1] ELSE <<".">>)
    /\ output_file' = N_code_txt
    /\ code_extensions' = DefaultCodeExtensions
    /\ mode' = "enhanced"
    /\ pc' = "parse_and_output"
    /\ UNCHANGED <<argv, fsVars, outFiles, scanVars, stdout, exit_code, result, run, first, analyzeVars>>

\* main lines 304-338 up to the call of preview_structure or parse_and_output.
main ==
    /\ pc = "__main__"
    /\ ~IsHelp
    /\ ~IsEnhanced
    /\ LET args == parse_args(argv, Defaults)
       IN  IF args.status # "ok"
           THEN /\ stdout' = Append(stdout, Say(IF args.status = "help" THEN "usage" ELSE "usage error"))
                /\ exit_code' = IF args.status = "help" THEN 0 ELSE 2
                /\ pc' = "exit"
                /\ UNCHANGED parserVars
           ELSE /\ root_path' = Resolve(args.path)
                /\ output_file' = args.output
                /\ code_extensions' = DefaultCodeExtensions \cup custom_extensions(args.extensions)
                /\ mode' = IF args.preview THEN "preview" ELSE "standard"
                /\ pc' = IF args.preview THEN "preview_structure" ELSE "parse_and_output"
                /\ stdout' = IF args.extensions # <<>>
                             THEN Append(stdout, Say("Added custom extensions")) ELSE stdout
                /\ UNCHANGED exit_code
    /\ UNCHANGED <<argv, fsVars, outFiles, scanVars, result, run, first, analyzeVars>>

\* The exit status once parse_and_output has returned: main exits 1 on failure
\* (lines 336-338), the enhanced entry discards the result (line 560).
ExitAfter(success) == IF mode = "standard" /\ ~success THEN 1 ELSE 0

\* Path.rglob on something that is not a directory yields nothing.
StartWalk == IF IsDirectory(root_path) THEN <<root_path>> ELSE <<>>

\* The output file is opened for writing before the existence check.
parse_and_output_begin_open_first ==
    /\ pc = "parse_and_output"
    /\ outFiles' = IF output_file \in readOnly THEN outFiles
                   ELSE [outFiles EXCEPT ![output_file] = File(<<>>)]
    /\ IF ~Exists(root_path)
       THEN /\ stdout' = Append(stdout, Say("Error: Directory does not exist"))
            /\ result' = "False"
            /\ exit_code' = ExitAfter(FALSE)
            /\ pc' = "exit"
            /\ UNCHANGED scanVars
       ELSE /\ stdout' = Append(stdout, Say("Scanning directory structure..."))
            /\ pc' = "scan_directory"
            /\ walk' = StartWalk
            /\ subdirs' = <<>>
            /\ items' = {}
            /\ structure' = EmptyStructure
            /\ visited' = {}
            /\ UNCHANGED <<exit_code, result>>
    /\ UNCHANGED <<argv, fsVars, parserVars, run, first, analyzeVars>>

\* parse_and_output lines 252-262 / 474-482: the existence check.
parse_and_output_begin ==
    /\ pc = "parse_and_output"
    /\ IF ~Exists(root_path)
       THEN /\ stdout' = Append(stdout, Say("Error: Directory does not exist"))
            /\ result' = "False"
            /\ exit_code' = ExitAfter(FALSE)
            /\ pc' = "exit"
            /\ UNCHANGED scanVars
       ELSE /\ stdout' = Append(stdout, Say("Scanning directory structure..."))
            /\ pc' = "scan_directory"
            /\ walk' = StartWalk
            /\ subdirs' = <<>>
            /\ items' = {}
            /\ structure' = EmptyStructure
            /\ visited' = {}
            /\ UNCHANGED <<exit_code, result>>
    /\ UNCHANGED <<argv, fsVars, outFiles, parserVars, run, first, analyzeVars>>

\* preview_structure lines 294-296: the scan starts without a check.
preview_structure_begin ==
    /\ pc = "preview_structure"
    /\ stdout' = Append(stdout, Say("Previewing structure"))
    /\ pc' = "scan_directory"
    /\ walk' = StartWalk
    /\ subdirs' = <<>>
    /\ items' = {}
    /\ structure' = EmptyStructure
    /\ visited' = {}
    /\ UNCHANGED <<argv, fsVars, outFiles, parserVars, exit_code, result, run, first, analyzeVars>>

(***************************************************************************)
(* TreeScanner                                                             *)
(***************************************************************************)

\* directory.rglob("*") moving on to the next directory of its walk.  The
\* subdirectories of the directory just finished are walked first, in the
\* order in which os.scandir gave them.  A directory that cannot be listed
\* yields nothing and is passed over silently.
rglob_next_directory ==
    /\ pc = "scan_directory"
    /\ items = {}
    /\ subdirs \o walk # <<>>
    /\ LET dir == Head(subdirs \o walk)
       IN  /\ walk' = Tail(subdirs \o walk)
           /\ subdirs' = <<>>
           /\ items' = IF ScandirDenied(dir) THEN {} ELSE Children(dir)
    /\ UNCHANGED <<argv, fsVars, outFiles, parserVars, structure, visited, stdout, exit_code,
                   result, pc, run, first, analyzeVars>>

\* The list of the key is replaced instead of extended.
AddFile_overwrite(st, key, item) ==
    [k \in DOMAIN st \cup {key} |-> IF k = key THEN <<item>> ELSE st[k]]

\* scan_directory lines 101-103
AddFile(st, key, item) ==
    IF key \in DOMAIN st
    THEN [st EXCEPT ![key] = Append(@, item)]
    ELSE [k \in DOMAIN st \cup {key} |-> IF k = key THEN <<item>> ELSE st[k]]

\* scan_directory lines 92-108: the body of the loop for the next item, which
\* is any entry of the directory not yielded yet (os.scandir order is not
\* specified).  The try statement encloses the loop, so an exception ends
\* the scan.
scan_item ==
    /\ pc = "scan_directory"
    /\ \E item \in items :
        LET verdict == should_ignore_path(item)
        IN  /\ visited' = visited \cup {item}
            /\ IF verdict = "PermissionError"
               THEN /\ stdout' = Append(stdout, Say("Permission denied accessing"))
                    /\ items' = {}
                    /\ subdirs' = <<>>
                    /\ walk' = <<>>
                    /\ UNCHANGED structure
               ELSE /\ items' = items \ {item}
                    /\ subdirs' = IF IsDirectory(item) THEN Append(subdirs, item) ELSE subdirs
                    /\ structure' = IF verdict = "keep" /\ IsRegularFile(item) /\ is_code_file(item)
                                    THEN AddFile(structure, parent_dir(item), item)
                                    ELSE structure
                    /\ UNCHANGED <<walk, stdout>>
    /\ UNCHANGED <<argv, fsVars, outFiles, parserVars, exit_code, result, pc, run, first, analyzeVars>>

ScanOver == pc = "scan_directory" /\ items = {} /\ subdirs = <<>> /\ walk = <<>>

\* preview_structure lines 297-302
preview_structure_end ==
    /\ ScanOver
    /\ mode = "preview"
    /\ stdout' = IF DOMAIN structure = {}
                 THEN Append(stdout, Say("No code files found"))
                 ELSE Append(stdout, SayText("Code Structure", format_directory_structure(structure)))
    /\ exit_code' = 0
    /\ pc' = "exit"
    /\ UNCHANGED <<argv, fsVars, outFiles, parserVars, scanVars, result, run, first, analyzeVars>>

\* parse_and_output lines 264-290 / 484-514: statistics, then the report is
\* written to output_file in one open(..., "w").
parse_and_output_end ==
    /\ ScanOver
    /\ mode \in {"standard", "enhanced"}
    /\ IF DOMAIN structure = {}
       THEN /\ stdout' = Append(stdout, Say("No code files found in the specified directory"))
            /\ result' = "False"
            /\ exit_code' = ExitAfter(FALSE)
            /\ UNCHANGED outFiles
       ELSE IF output_file \in readOnly
       THEN /\ stdout' = Append(stdout, Say("Error writing output file"))
            /\ result' = "False"
            /\ exit_code' = ExitAfter(FALSE)
            /\ UNCHANGED outFiles
       ELSE /\ stdout' = Append(stdout, Say("Successfully generated"))
            /\ result' = "True"
            /\ exit_code' = ExitAfter(TRUE)
            /\ outFiles' = [outFiles EXCEPT ![output_file] = File(report_text(structure, mode = "enhanced"))]
    /\ pc' = "exit"
    /\ UNCHANGED <<argv, fsVars, parserVars, scanVars, run, first, analyzeVars>>

\* The same command is run again on the filesystem the first run left.
rerun ==
    /\ pc = "exit"
    /\ run < MaxRuns
    /\ run' = run + 1
    /\ first' = IF run = 1 THEN [exit |-> exit_code, out |-> outFiles, stdout |-> stdout] ELSE first
    /\ pc' = "__main__"
    /\ mode' = "none"
    /\ root_path' = <<>>
    /\ output_file' = <<>>
    /\ code_extensions' = {}
    /\ walk' = <<>>
    /\ subdirs' = <<>>
    /\ items' = {}
    /\ structure' = EmptyStructure
    /\ visited' = {}
    /\ stdout' = <<>>
    /\ exit_code' = NoExit
    /\ result' = "None"
    /\ UNCHANGED <<argv, fsVars, outFiles, analyzeVars>>

Next ==
    \/ create_example_usage
    \/ enhanced_entry
    \/ main
    \/ parse_and_output_begin
    \/ preview_structure_begin
    \/ rglob_next_directory
    \/ scan_item
    \/ preview_structure_end
    \/ parse_and_output_end
    \/ rerun

\* Runs that vary the project tree.
Spec == Init /\ [][Next]_vars

\* Runs that vary the command line.
SpecCli == InitCli /\ [][Next]_vars

(***************************************************************************)
(* analyze_file_complexity on its own: texts put together from chunks      *)
(***************************************************************************)

Chunks ==
    { <<"\n">>, <<" ">>, <<"#">>, <<"/", "/">>, <<"x", "\n">>,
      <<"d", "e", "f", " ", "f">>, <<"c", "l", "a", "s", "s", " ", "f">>, <<"(">> }

AnalyzeExts == { <<".", "p", "y">>, <<".", "C">>, <<".", "m", "d">> }

InitAnalyze ==
    /\ argv = <<>>
    /\ cwd = <<N_home, N_u>>
    /\ tree = {Proj}
    /\ noRead = {}
    /\ noSearch = {}
    /\ outFiles = [n \in OutputNames |-> NoFile]
    /\ readOnly = {}
    /\ pc = "typing"
    /\ mode = "enhanced"
    /\ root_path = cwd \o Proj
    /\ output_file = N_code_txt
    /\ code_extensions = DefaultCodeExtensions
    /\ walk = <<>>
    /\ subdirs = <<>>
    /\ items = {}
    /\ structure = EmptyStructure
    /\ visited = {}
    /\ stdout = <<>>
    /\ exit_code = NoExit
    /\ result = "None"
    /\ run = 1
    /\ first = NoFirst
    /\ a_content = <<>>
    /\ a_ext \in AnalyzeExts
    /\ a_stats = EmptyDict
    /\ a_typed = 0

mainVars == <<argv, fsVars, outFiles, parserVars, scanVars, stdout, exit_code, result, run, first>>

\* The file read at line 445 holds one more chunk of text.
type_chunk ==
    /\ pc = "typing"
    /\ a_typed < MaxChunks
    /\ \E c \in Chunks : a_content' = a_content \o c
    /\ a_typed' = a_typed + 1
    /\ UNCHANGED <<mainVars, pc, a_ext, a_stats>>

\* analyze_file_complexity lines 348-412
analyze ==
    /\ pc = "typing"
    /\ a_stats' = analyze_file_complexity(a_content, a_ext)
    /\ pc' = "analyzed"
    /\ UNCHANGED <<mainVars, a_content, a_ext, a_typed>>

NextAnalyze == type_chunk \/ analyze

SpecAnalyze == InitAnalyze /\ [][NextAnalyze]_vars


(***************************************************************************)
(* Properties                                                              *)
(***************************************************************************)

Said(msg) == \E i \in 1..Len(stdout) : stdout[i].msg = msg

\* The files in the scan result.
RetainedSet == UNION { Range(structure[k]) : k \in DOMAIN structure }

\* An entry that lies in a directory below the root whose name is ignored.
UnderIgnoredDir(path) ==
    \E k \in (Len(root_path) + 1)..(Len(path) - 1) : path[k] \in ignore_dirs

\* C1: the scan result holds no file with an ancestor directory named in
\* ignore_dirs, no file named in ignore_files, and no file whose name ends
\* with the suffix of an ignore pattern that begins with "*".
C1_IgnoredNeverRetained ==
    \A f \in RetainedSet :
        /\ \A k \in 1..(Len(f) - 1) : f[k] \notin ignore_dirs
        /\ Name(f) \notin ignore_files
        /\ \A pat \in ignore_files : StartsWith(pat, <<"*">>) => ~EndsWith(Name(f), Tail(pat))

\* A finished scan that kept a file and met both a code file below an ignored
\* directory and a code file matching a suffix pattern.
C1_Witness ==
    /\ pc = "exit"
    /\ RetainedSet # {}
    /\ \E v \in visited : IsRegularFile(v) /\ is_code_file(v) /\ UnderIgnoredDir(v)
    /\ \E v \in visited :
          /\ IsRegularFile(v) /\ is_code_file(v) /\ ~UnderIgnoredDir(v)
          /\ \E pat \in ignore_files : StartsWith(pat, <<"*">>) /\ EndsWith(Name(v), Tail(pat))

\* C2: in every mode the process exits with status 1 when the root path does
\* not exist, no code file is found or the output file cannot be written, and
\* with status 0 only on success or on help.
C2_ExitStatus ==
    pc = "exit" =>
        /\ ( /\ mode # "none"
             /\ \/ ~Exists(root_path)
                \/ DOMAIN structure = {}
                \/ Said("Error writing output file") ) => exit_code = 1
        /\ exit_code = 0 =>
              \/ Said("USAGE EXAMPLES") \/ Said("usage")
              \/ Said("Successfully generated") \/ Said("Code Structure")

Passed(v) == should_ignore_path(v) = "keep" /\ IsRegularFile(v) /\ is_code_file(v)

\* C3: total_files is the sum of the group sizes and the number of distinct
\* visited files that passed both filters; no file is in two groups (or twice
\* in one); files share a group exactly when they share a parent directory,
\* and a group below the root is keyed by that directory relative to the root.
C3_TotalFiles ==
    LET keys == SetToSeq(DOMAIN structure)
    IN  /\ total_files(structure) = SumSeq([i \in 1..Len(keys) |-> Cardinality(Range(structure[keys[i]]))])
        /\ total_files(structure) = Cardinality({v \in visited : Passed(v)})
        /\ \A k1, k2 \in DOMAIN structure :
              \A i \in 1..Len(structure[k1]) : \A j \in 1..Len(structure[k2]) :
                  /\ structure[k1][i] = structure[k2][j] => (k1 = k2 /\ i = j)
                  /\ (k1 = k2) <=> (Parent(structure[k1][i]) = Parent(structure[k2][j]))
        /\ \A k \in DOMAIN structure : \A f \in Range(structure[k]) :
              Parent(f) # root_path => k = StrRel(RelativeTo(Parent(f), root_path))

\* A finished scan with two groups, one of them holding two files.
C3_Witness ==
    /\ pc = "exit"
    /\ Cardinality(DOMAIN structure) >= 2
    /\ \E k \in DOMAIN structure : Len(structure[k]) >= 2
    /\ \E v \in visited : ~Passed(v)

\* The key under which files directly in the root are grouped.
RootKey == parent_dir(root_path \o <<N_a_py>>)

\* C4: the tree lists the directory keys in lexicographic order with the key
\* of the scan root first, and the files of a directory in order of name.
C4_TreeOrder ==
    (pc = "exit" /\ DOMAIN structure # {}) =>
        LET dirs == sorted_dirs(structure)
        IN  /\ \A i, j \in 1..Len(dirs) : i < j => StrLess(dirs[i], dirs[j])
            /\ RootKey \in DOMAIN structure => tree_lines(structure)[2] = dir_lines(RootKey)[1]
            /\ \A d \in DOMAIN structure :
                  LET files == sorted_files(structure, d)
                  IN  \A i, j \in 1..Len(files) : i < j => StrLess(Name(files[i]), Name(files[j]))

\* C5: when analyze_file_complexity returns statistics, lines_total is
\* lines_code + lines_comment + lines_blank, every line of the text is counted
\* once, and no counter is negative.
C5_LineCounts ==
    (pc = "analyzed" /\ DOMAIN a_stats # {}) =>
        /\ a_stats.lines_total = a_stats.lines_code + a_stats.lines_comment + a_stats.lines_blank
        /\ a_stats.lines_total = Len(SplitLines(a_content))
        /\ \A c \in DOMAIN a_stats : a_stats[c] >= 0

\* An analysed text with a blank line, a comment line and a code line, its
\* last line ended by a line break.
C5_Witness ==
    /\ pc = "analyzed"
    /\ DOMAIN a_stats # {}
    /\ a_stats.lines_blank > 0
    /\ a_stats.lines_comment > 0
    /\ a_stats.lines_code > 0
    /\ a_content[Len(a_content)] = "\n"

\* C6: two runs of the same command on the unchanged tree leave the same
\* report, whatever order the entries are enumerated in.
C6_SameReport ==
    (run = 2 /\ pc = "exit" /\ mode \in {"standard", "enhanced"}) =>
        /\ exit_code = first.exit
        /\ Said("Successfully generated") <=>
              \E i \in 1..Len(first.stdout) : first.stdout[i].msg = "Successfully generated"
        /\ outFiles[output_file] = first.out[output_file]

\* C7: with a root path that does not exist, parse_and_output reports the
\* error and returns False, and the output file is neither created nor changed.
C7_MissingRootLeavesOutput ==
    [][ (pc = "parse_and_output" /\ ~Exists(root_path)) =>
            /\ outFiles' = outFiles
            /\ result' = "False"
            /\ pc' = "exit"
            /\ stdout'[Len(stdout')].msg = "Error: Directory does not exist" ]_vars

\* parse_and_output has returned for a missing root and the output file that
\* existed before still holds its text.
C7_Witness ==
    /\ pc = "exit"
    /\ mode \in {"standard", "enhanced"}
    /\ ~Exists(root_path)
    /\ result = "False"
    /\ outFiles[output_file] = File(OldText)

\* A file the scan can reach and would keep: below the root, in directories
\* that can be listed, passing both filters.
Retainable(f) ==
    /\ f \in FsPaths
    /\ IsPrefix(root_path, f) /\ f # root_path
    /\ \A k \in Len(root_path)..(Len(f) - 1) : ~ScandirDenied(SubSeq(f, 1, k))
    /\ Passed(f)

\* C8: an error on one entry does not cut the scan short: once the scan is
\* over, every file it can reach and would keep is in the result.
C8_ScanContinues ==
    (pc = "exit" /\ mode # "none" /\ IsDirectory(root_path)) =>
        \A f \in FsPaths : Retainable(f) => f \in RetainedSet

\* The value given with -o/--output, code.txt without the option.
GivenOutput ==
    LET at == {i \in 1..(Len(argv) - 1) : argv[i] \in {T_o, T_output}}
    IN  IF at = {} THEN N_code_txt ELSE argv[(CHOOSE i \in at : \A j \in at : j <= i) + 1]

\* The positional argument: a string that is neither an option nor the value
\* of one; "." without it.
GivenPath ==
    LET at == {i \in 1..Len(argv) :
                  /\ ~IsOption(argv[i])
                  /\ (i = 1 \/ argv[i - 1] \notin {T_o, T_output, T_extensions})}
    IN  IF at = {} THEN <<".">> ELSE argv[CHOOSE i \in at : \A j \in at : i <= j]

\* C9: a run that writes a report writes it to the file given with -o/--output
\* and scans the positional path, wherever the options stand.
C9_OptionsHonoured ==
    (pc = "exit" /\ Said("Successfully generated")) =>
        /\ output_file = GivenOutput
        /\ root_path = Resolve(GivenPath)

\* C10: the scan visits no entry below a directory it found to be ignored.
C10_NoDescentIntoIgnored == \A v \in visited : ~UnderIgnoredDir(v)

\* C11: in a written report the section of every retained file, an empty file
\* included, holds between the divider and the closing separator block the
\* content read_file_content returns for the file, and nothing in its place.
C11_SectionHoldsContent ==
    (pc = "exit" /\ Said("Successfully generated")) =>
        \A k \in DOMAIN structure : \A f \in Range(structure[k]) :
            LET section == IF mode = "enhanced" THEN enhanced_section(f) ELSE code_section(k, f)
                divider == CHOOSE i \in 1..Len(section) :
                               section[i] = Rule("-") /\ \A j \in 1..(i - 1) : section[j] # Rule("-")
            IN  /\ section[Len(section)] = EndBlock
                /\ SubSeq(section, divider + 1, Len(section) - 1) = <<read_file_content(f)>>

\* The number of blanks a line of the tree begins with.
Indent(line) == Cardinality({i \in 1..Len(line) : \A j \in 1..i : line[j] = " "})

\* C12: in the tree the i-th component of a directory key is indented by i - 1
\* levels of two blanks, and every file name is indented one level more than
\* the last component of its directory.
C12_TreeIndentation ==
    pc = "exit" =>
        \A d \in DOMAIN structure :
            LET dirs == dir_lines(d)
                files == file_lines(structure, d)
            IN  /\ \A i \in 1..Len(dirs) : Indent(dirs[i]) = 2 * (i - 1)
                /\ \A i \in 1..Len(files) : Indent(files[i]) = Indent(dirs[Len(dirs)]) + 2

\* A file that passes the filters on its name and on the names of the
\* directories between the scan root and the file.
KeptBelowRoot(f) ==
    /\ IsRegularFile(f)
    /\ is_code_file(f)
    /\ ~UnderIgnoredDir(f)
    /\ Name(f) \notin ignore_files
    /\ \A pat \in ignore_files : StartsWith(pat, <<"*">>) => ~EndsWith(Name(f), Tail(pat))

\* C13: the result of a scan depends only on the path components below the
\* root: wherever the root lies, a file under it is retained exactly when it
\* and the directories between the root and it pass the filters.
C13_AncestorsAboveRootIrrelevant ==
    (pc = "exit" /\ mode \in {"standard", "enhanced", "preview"} /\ IsDirectory(root_path)
        /\ noRead = {} /\ noSearch = {}) =>
        \A f \in FsPaths :
            (IsPrefix(root_path, f) /\ f # root_path) => (f \in RetainedSet <=> KeptBelowRoot(f))

====
